---- MODULE Spec2Model ----
(***************************************************************************)
(* Model of backend/app.py: the /chat and /save-convo handlers running     *)
(* under a request-parallel server against the MongoDB collection          *)
(* `conversations` (unique index on conversation_id).                      *)
(*                                                                         *)
(* Text values (user messages, replies, titles) are sequences of one-      *)
(* character strings, so that slicing is computed and not assumed.         *)
(* JSON null / Python None is the value None for texts and Null for ids.   *)
(*                                                                         *)
(* The require_auth decorator, the Clerk webhook and /api/save-user work   *)
(* on the collection `users` (unique index on user_id) and on nothing      *)
(* else; chat and save_convo are not decorated and never touch `users`.    *)
(* The two groups are therefore specified side by side: Spec and           *)
(* SpecExisting run the conversation handlers, SpecUsers the user ones.    *)
(***************************************************************************)
EXTENDS Integers, Sequences, FiniteSets, TLC

\* ---------------------------------------------------------------- bounds
\* Number of HTTP requests the server receives in one behaviour.
MaxRequests == 2
\* Largest value of the wall clock (datetime.now / datetime.utcnow).
MaxClock == 1

\* ------------------------------------------------------ program constants
\* inputs[:50]
TitleLen == 50

\* ------------------------------------------------------------ JSON values
None == <<"None">>
Null == "null"
Absent == "absent"

Hello == <<"H", "e", "l", "l", "o">>
\* A user message one character longer than the title slice; its last
\* character differs from the others.
LongInput == [i \in 1..(TitleLen + 1) |-> IF i = TitleLen + 1 THEN "z" ELSE "a"]
HiThere == <<"H", "i">>
OtherTitle == <<"T">>

Procs == 1..MaxRequests

\* uuid.uuid4() as the n-th identifier the server mints: distinct from every
\* identifier minted before and from the identifiers clients make up.
uuid4(n) == "uuid-" \o ToString(n)

\* Python truthiness of a JSON string-or-null used as an identifier.
TruthyId(v) == v # Null /\ v # ""
\* Python truthiness of a text-or-null.
TruthyText(v) == v # None /\ v # <<>>
\* Python truthiness of a list.
TruthyList(v) == v # <<>>

\* data.get("is_temp", False): the default taken the wrong way round.
GetIsTemp_DefaultFalse(v) == IF v = "omitted" THEN "false" ELSE v

\* data.get("is_temp", True)
GetIsTemp(v) == IF v = "omitted" THEN "true" ELSE v
\* `not is_temp` for is_temp in true / false / null
NotIsTemp(v) == v \in {"false", "null"}

\* inputs, with the slice forgotten.
Slice50_NoSlice(s) == s

\* inputs[:50]
Slice50(s) == SubSeq(s, 1, IF Len(s) < TitleLen THEN Len(s) ELSE TitleLen)

UserMsg(text) == [sender |-> "user", text |-> text]
BotMsg(text) == [sender |-> "bot", text |-> text]

VARIABLES
  conversations,  \* the collection, documents in insertion order
  requests,       \* per request: its body, its position, its locals, its response
  clock,          \* the wall clock
  minted,         \* number of uuid4() calls so far
  users,          \* the collection users, documents in insertion order
  ureqs           \* per request on the user side: body, position, locals, response

vars == <<conversations, requests, clock, minted, users, ureqs>>

NoReq ==
  [kind |-> "none", pc |-> "idle",
   inputs |-> None, conversation_id |-> Null, is_temp |-> "omitted",
   user_id |-> Null, title |-> None, messages |-> <<>>,
   raised |-> FALSE, response_text |-> None, existing_convo |-> FALSE,
   created_at |-> 0, updated_at |-> 0,
   status |-> 0, resp_error |-> Absent, resp_conversation_id |-> Absent]

\* The response is sent: the request's body and locals are gone, what is left
\* is what the client observes (status, the error and the conversation id of
\* the response body) and which request it answered (its kind, its is_temp,
\* whether its model call raised).
Respond(r, status, error, cid) ==
  [NoReq EXCEPT !.kind = r.kind, !.pc = "done", !.is_temp = r.is_temp,
                !.raised = r.raised,
                !.status = status, !.resp_error = error,
                !.resp_conversation_id = cid]

\* ------------------------------------------------------ collection helpers
Matching(coll, cid) == {i \in 1..Len(coll) : coll[i].conversation_id = cid}

\* find_one({"conversation_id": cid}) is not None
FindOne(coll, cid) == Matching(coll, cid) # {}

First(S) == CHOOSE i \in S : \A j \in S : i <= j

\* The unique index on conversation_id: may `doc` be inserted?
UniqueIndexAllows(coll, doc) == Matching(coll, doc.conversation_id) = {}

\* insert_one(doc) when the index allows it
InsertOne(coll, doc) == Append(coll, doc)

\* update_one({"conversation_id": cid}, {"$set": fields}) with fields a record
\* of conversation_id, user_id, title, messages, updated_at.
UpdateOneSet(coll, cid, f) ==
  IF Matching(coll, cid) = {} THEN coll
  ELSE LET k == First(Matching(coll, cid)) IN
       [coll EXCEPT ![k] = [@ EXCEPT !.conversation_id = f.conversation_id,
                                    !.user_id = f.user_id,
                                    !.title = f.title,
                                    !.messages = f.messages,
                                    !.updated_at = f.updated_at]]

\* The update writing created_at along with updated_at.
UpdateOnePush_ResetsCreated(coll, cid, pair, now) ==
  IF Matching(coll, cid) = {} THEN coll
  ELSE LET k == First(Matching(coll, cid)) IN
       [coll EXCEPT ![k] = [@ EXCEPT !.messages = @ \o pair,
                                    !.created_at = now,
                                    !.updated_at = now]]

\* update_one({"conversation_id": cid},
\*            {"$push": {"messages": {"$each": pair}}, "$set": {"updated_at": now}})
UpdateOnePush(coll, cid, pair, now) ==
  IF Matching(coll, cid) = {} THEN coll
  ELSE LET k == First(Matching(coll, cid)) IN
       [coll EXCEPT ![k] = [@ EXCEPT !.messages = @ \o pair,
                                    !.updated_at = now]]

\* ------------------------------------------------------------ request bodies
\* Conversation ids a client can send: one it made up, the one of a
\* conversation saved before the server started, or one a response of the
\* server has carried (a minted id is not known before it is answered).
KnownIds ==
  {"c1"}
  \cup ({"c0"} \cap {conversations[i].conversation_id : i \in 1..Len(conversations)})
  \cup ({requests[p].resp_conversation_id : p \in 1..MaxRequests} \ {Absent})

ChatBodies ==
  [inputs : {None, Hello, LongInput},
   conversation_id : {Null} \cup KnownIds,
   is_temp : {"true", "false", "omitted"}]

Pair == <<UserMsg(Hello), BotMsg(HiThere)>>

SaveConvoBodies ==
  [conversation_id : KnownIds, user_id : {"A", "B"},
   title : {Hello, OtherTitle},
   messages : {<<UserMsg(Hello)>>, Pair}]
  \cup {[conversation_id |-> Null, user_id |-> "A", title |-> Hello, messages |-> Pair],
        [conversation_id |-> "c1", user_id |-> Null, title |-> Hello, messages |-> Pair],
        [conversation_id |-> "c1", user_id |-> "A", title |-> None, messages |-> Pair],
        [conversation_id |-> "c1", user_id |-> "A", title |-> Hello, messages |-> <<>>]}

\* No request received yet on the user side.
NoUReq ==
  [kind |-> "none", pc |-> "idle",
   cred |-> "none", user_id |-> Null, email |-> Null, event |-> Null,
   existing_user |-> FALSE, now |-> 0,
   fault |-> FALSE, invoked |-> FALSE,
   status |-> 0, message |-> Absent]

\* ---------------------------------------------------------------------- Init
Init ==
  /\ conversations = <<>>
  /\ requests = [p \in Procs |-> NoReq]
  /\ clock = 0
  /\ minted = 0
  /\ users = <<>>
  /\ ureqs = [p \in Procs |-> NoUReq]

\* Requests arrive in slot order.
CanStart(p) ==
  /\ requests[p].pc = "idle"
  /\ \A q \in Procs : q < p => requests[q].pc # "idle"

\* -------------------------------------------------------------------- /chat
\* The request as chat holds it after lines 413-415; is_temp is kept as the
\* body has it.
ChatRequest(body) ==
  [NoReq EXCEPT !.kind = "chat",
                !.inputs = body.inputs,
                !.conversation_id = body.conversation_id,
                !.is_temp = body.is_temp]

\* `not is_temp`, with is_temp = data.get("is_temp", True): lines 416, 424
Persist(r) == NotIsTemp(GetIsTemp(r.is_temp))

\* call_huggingface_chat_model: the reply, or an exception (no API key, the
\* request failed, the answer has no choices).
CallModel(ok) ==
  IF ok THEN [raised |-> FALSE, text |-> HiThere]
        ELSE [raised |-> TRUE, text |-> None]

\* The except branch answering with a made-up reply instead of the error.
ChatAfterCall_Fallback(r, result) ==
  [r EXCEPT !.pc = "persist", !.raised = result.raised,
            !.response_text = IF result.raised THEN <<"?">> ELSE result.text]

\* chat, lines 418-421: the try/except around the model call.
ChatAfterCall(r, result) ==
  IF result.raised
  THEN Respond([r EXCEPT !.raised = TRUE], 500, "Model inference failed", Absent)
  ELSE [r EXCEPT !.pc = "persist", !.response_text = result.text]

\* chat, lines 413-421: read the body, call the model.
ChatCall(p) ==
  /\ CanStart(p)
  /\ \E body \in ChatBodies, ok \in BOOLEAN :
       requests' = [requests EXCEPT ![p] =
                      ChatAfterCall(ChatRequest(body), CallModel(ok))]
  /\ UNCHANGED <<conversations, clock, minted, users, ureqs>>

\* chat, line 461: a temporary conversation is answered without the store.
ChatTemp(p) ==
  /\ requests[p].kind = "chat" /\ requests[p].pc = "persist"
  /\ ~Persist(requests[p])
  /\ requests' = [requests EXCEPT ![p] = Respond(@, 200, Absent, Absent)]
  /\ UNCHANGED <<conversations, clock, minted, users, ureqs>>

\* chat, lines 425-435: mint the id, build the document up to created_at.
\* inputs[:50] raises TypeError when inputs is None (an unhandled 500).
ChatNewConversation(p) ==
  /\ requests[p].kind = "chat" /\ requests[p].pc = "persist"
  /\ Persist(requests[p])
  /\ ~TruthyId(requests[p].conversation_id)
  /\ minted' = minted + 1
  /\ requests' = [requests EXCEPT ![p] =
       IF requests[p].inputs = None
       THEN Respond(@, 500, "Internal Server Error", Absent)
       ELSE [@ EXCEPT !.pc = "insert",
                      !.conversation_id = uuid4(minted + 1),
                      !.title = Slice50(requests[p].inputs),
                      !.created_at = clock]]
  /\ UNCHANGED <<conversations, clock, users, ureqs>>

\* new_conversation, lines 428-437, with updated_at read at `now`.
ChatDocument(r, now) ==
  [conversation_id |-> r.conversation_id,
   user_id |-> Absent,
   title |-> r.title,
   messages |-> <<UserMsg(r.inputs), BotMsg(r.response_text)>>,
   created_at |-> r.created_at,
   updated_at |-> now]

\* chat, lines 436-438 and 456-459: updated_at, insert_one, the response.
ChatInsert(p) ==
  /\ requests[p].kind = "chat" /\ requests[p].pc = "insert"
  /\ LET doc == ChatDocument(requests[p], clock) IN
       IF UniqueIndexAllows(conversations, doc)
       THEN /\ conversations' = InsertOne(conversations, doc)
            /\ requests' = [requests EXCEPT ![p] =
                 Respond(@, 200, Absent, requests[p].conversation_id)]
       ELSE /\ conversations' = conversations
            /\ requests' = [requests EXCEPT ![p] =
                 Respond(@, 500, "Internal Server Error", Absent)]
  /\ UNCHANGED <<clock, minted, users, ureqs>>

\* chat, lines 439-459: push the pair onto the named conversation.
ChatUpdate(p) ==
  /\ requests[p].kind = "chat" /\ requests[p].pc = "persist"
  /\ Persist(requests[p])
  /\ TruthyId(requests[p].conversation_id)
  /\ conversations' = UpdateOnePush(conversations, requests[p].conversation_id,
       <<UserMsg(requests[p].inputs), BotMsg(requests[p].response_text)>>, clock)
  /\ requests' = [requests EXCEPT ![p] =
       Respond(@, 200, Absent, requests[p].conversation_id)]
  /\ UNCHANGED <<clock, minted, users, ureqs>>

\* --------------------------------------------------------------- /save-convo
\* all([conversation_id, user_id, title, messages])
AllFields(b) ==
  /\ TruthyId(b.conversation_id)
  /\ TruthyId(b.user_id)
  /\ TruthyText(b.title)
  /\ TruthyList(b.messages)

\* The request as save_convo holds it after lines 376-381.
SaveConvoRequest(body) ==
  [NoReq EXCEPT !.kind = "save_convo",
                !.conversation_id = body.conversation_id,
                !.user_id = body.user_id,
                !.title = body.title,
                !.messages = body.messages]

\* save_convo, lines 376-394: read the body, validate, find_one, and build
\* convo_data with updated_at read from the clock.  (No document is ever
\* deleted, so a find_one that precedes the clock read sees nothing that one
\* taken at the clock read would not.)
SaveConvoFind(p) ==
  /\ CanStart(p)
  /\ \E body \in SaveConvoBodies :
       requests' = [requests EXCEPT ![p] =
         IF ~AllFields(body)
         THEN Respond(SaveConvoRequest(body), 400, "Missing fields", Absent)
         ELSE [SaveConvoRequest(body) EXCEPT
                 !.pc = "write",
                 !.existing_convo = FindOne(conversations, body.conversation_id),
                 !.updated_at = clock]]
  /\ UNCHANGED <<conversations, clock, minted, users, ureqs>>

\* convo_data, lines 388-394
ConvoData(r) ==
  [conversation_id |-> r.conversation_id,
   user_id |-> r.user_id,
   title |-> r.title,
   messages |-> r.messages,
   updated_at |-> r.updated_at]

\* save_convo, lines 396-402: the conversation was found, $set convo_data.
SaveConvoUpdate(p) ==
  /\ requests[p].kind = "save_convo" /\ requests[p].pc = "write"
  /\ requests[p].existing_convo
  /\ conversations' = UpdateOneSet(conversations, requests[p].conversation_id,
                                   ConvoData(requests[p]))
  /\ requests' = [requests EXCEPT ![p] =
       Respond(@, 200, Absent, requests[p].conversation_id)]
  /\ UNCHANGED <<clock, minted, users, ureqs>>

\* convo_data after line 405, created_at read at `now`.
SaveConvoDocument(r, now) ==
  [conversation_id |-> r.conversation_id,
   user_id |-> r.user_id,
   title |-> r.title,
   messages |-> r.messages,
   created_at |-> now,
   updated_at |-> r.updated_at]

\* save_convo, lines 403-407: not found, created_at read from the clock,
\* insert_one; a duplicate key is an unhandled exception (500).
SaveConvoInsert(p) ==
  /\ requests[p].kind = "save_convo" /\ requests[p].pc = "write"
  /\ ~requests[p].existing_convo
  /\ LET doc == SaveConvoDocument(requests[p], clock) IN
       IF UniqueIndexAllows(conversations, doc)
       THEN /\ conversations' = InsertOne(conversations, doc)
            /\ requests' = [requests EXCEPT ![p] =
                 Respond(@, 201, Absent, requests[p].conversation_id)]
       ELSE /\ conversations' = conversations
            /\ requests' = [requests EXCEPT ![p] =
                 Respond(@, 500, "Internal Server Error", Absent)]
  /\ UNCHANGED <<clock, minted, users, ureqs>>

\* ---------------------------------------------------------------------- clock
Tick ==
  /\ clock < MaxClock
  /\ clock' = clock + 1
  /\ UNCHANGED <<conversations, requests, minted, users, ureqs>>

Next ==
  \/ \E p \in Procs : ChatCall(p)
  \/ \E p \in Procs : ChatTemp(p)
  \/ \E p \in Procs : ChatNewConversation(p)
  \/ \E p \in Procs : ChatInsert(p)
  \/ \E p \in Procs : ChatUpdate(p)
  \/ \E p \in Procs : SaveConvoFind(p)
  \/ \E p \in Procs : SaveConvoUpdate(p)
  \/ \E p \in Procs : SaveConvoInsert(p)
  \/ Tick

Spec == Init /\ [][Next]_vars

\* The store as one answered save-convo request leaves it: conversation c0 of
\* user A, saved at clock 0.
InitExisting ==
  /\ conversations = <<[conversation_id |-> "c0", user_id |-> "A",
                        title |-> Hello, messages |-> Pair,
                        created_at |-> 0, updated_at |-> 0]>>
  /\ requests = [p \in Procs |-> NoReq]
  /\ clock = 0
  /\ minted = 0
  /\ users = <<>>
  /\ ureqs = [p \in Procs |-> NoUReq]

\* The same handlers, serving requests on a store that holds a conversation.
SpecExisting == InitExisting /\ [][Next]_vars

\* =============================================================== user side
\* A user document has user_id or clerk_id (the other is Absent), email,
\* created_at and last_active; the names and last_updated, which no handler
\* reads back, are left out.
UserIds == {"U1", "U2"}
Emails == {"e1", "e2"}

\* The e-mail address Clerk holds for a user.
ClerkEmail(u) == IF u = "U1" THEN "e1" ELSE "e2"

\* As the unique index and the filters see user_id: a missing field is null.
KeyOf(doc) == IF doc.user_id = Absent THEN Null ELSE doc.user_id

UsersMatching(coll, uid) == {i \in 1..Len(coll) : KeyOf(coll[i]) = uid}

\* users_collection.find_one({"user_id": uid}) is not None
UsersFindOne(coll, uid) == UsersMatching(coll, uid) # {}

\* users_collection.find_one({"email": email}) is not None
UsersFindEmail(coll, email) == \E i \in 1..Len(coll) : coll[i].email = email

\* The unique index on user_id of line 68.
UsersIndexAllows(coll, doc) == UsersMatching(coll, KeyOf(doc)) = {}

\* users_collection.update_one({"user_id": uid}, {"$set": {...}}): last_active
\* always, email when the update carries one.
UsersUpdateOne(coll, uid, email, now) ==
  IF UsersMatching(coll, uid) = {} THEN coll
  ELSE LET k == First(UsersMatching(coll, uid)) IN
       [coll EXCEPT ![k] = [@ EXCEPT !.last_active = now,
                                    !.email = IF email = Absent THEN @ ELSE email]]

UserDoc(uid, cid, email, now) ==
  [user_id |-> uid, clerk_id |-> cid, email |-> email,
   created_at |-> now, last_active |-> now]

\* The response is sent; what stays is what the client observes and, for a
\* request through require_auth, the credential it came with and the user id
\* the token was verified for.
URespond(r, status, message, invoked) ==
  [NoUReq EXCEPT !.kind = r.kind, !.pc = "done",
                 !.cred = r.cred,
                 !.user_id = IF r.kind = "auth" THEN r.user_id ELSE Null,
                 !.fault = r.fault, !.invoked = invoked,
                 !.status = status, !.message = message]

UCanStart(p) ==
  /\ ureqs[p].pc = "idle"
  /\ \A q \in Procs : q < p => ureqs[q].pc # "idle"

\* ------------------------------------------------------------- require_auth
\* The Authorization header: none, one that is no Bearer header, or a Bearer
\* token that is forged, expired, well signed but without a subject, or
\* valid; `sub` is the token's subject.
Credentials == {"none", "basic", "invalid", "expired", "nosub", "valid"}

\* line 83: auth_header and auth_header.startswith("Bearer ")
HasBearer(cred) == cred \notin {"none", "basic"}

\* jwt.decode with the expiry left unchecked.
verify_token_NoExpiry(cred, sub) ==
  IF cred \in {"valid", "expired"} THEN [raised |-> FALSE, sub |-> sub]
  ELSE IF cred = "nosub" THEN [raised |-> FALSE, sub |-> Absent]
  ELSE [raised |-> TRUE, sub |-> Absent]

\* verify_token: the decoded claims, or an exception for an expired or an
\* invalid token.
verify_token(cred, sub) ==
  IF cred = "valid" THEN [raised |-> FALSE, sub |-> sub]
  ELSE IF cred = "nosub" THEN [raised |-> FALSE, sub |-> Absent]
  ELSE [raised |-> TRUE, sub |-> Absent]

\* decorated, lines 82-95 and 124-126: the header, the token (an exception of
\* verify_token or the KeyError of claims["sub"] answers 401), find_one on
\* users.
AuthFind(p) ==
  /\ UCanStart(p)
  /\ \E cred \in Credentials, sub \in UserIds :
       LET r == [NoUReq EXCEPT !.kind = "auth", !.cred = cred]
           claims == verify_token(cred, sub)
       IN ureqs' = [ureqs EXCEPT ![p] =
            IF ~HasBearer(cred)
            THEN URespond(r, 401, "Missing or invalid Authorization header", FALSE)
            ELSE IF claims.raised \/ claims.sub = Absent
            THEN URespond(r, 401, "Invalid or expired token", FALSE)
            ELSE [r EXCEPT !.user_id = claims.sub,
                           !.existing_user = UsersFindOne(users, claims.sub),
                           !.pc = IF UsersFindOne(users, claims.sub)
                                  THEN "touch" ELSE "provision"]]
  /\ UNCHANGED <<conversations, requests, clock, minted, users>>

\* decorated, lines 95-113 and 120-128: no user found. The Clerk client is
\* missing or its call raises (~ok), or the user is fetched and inserted; an
\* exception (also the duplicate key of a lost race) answers 500, otherwise
\* the wrapped handler is called.
AuthProvision(p) ==
  /\ ureqs[p].kind = "auth" /\ ureqs[p].pc = "provision"
  /\ \E ok \in BOOLEAN :
       LET r == ureqs[p]
           doc == UserDoc(r.user_id, Absent, ClerkEmail(r.user_id), clock)
       IN IF ~ok
          THEN /\ users' = users
               /\ ureqs' = [ureqs EXCEPT ![p] =
                    URespond([r EXCEPT !.fault = TRUE], 500,
                             "Failed to process user data", FALSE)]
          ELSE IF UsersIndexAllows(users, doc)
          THEN /\ users' = Append(users, doc)
               /\ ureqs' = [ureqs EXCEPT ![p] = URespond(r, 200, Absent, TRUE)]
          ELSE /\ users' = users
               /\ ureqs' = [ureqs EXCEPT ![p] =
                    URespond(r, 500, "Failed to process user data", FALSE)]
  /\ UNCHANGED <<conversations, requests, clock, minted>>

\* decorated, lines 114-128: the user was found, last_active is touched; if
\* the update raises (~ok) the answer is 500, otherwise the wrapped handler is
\* called.
AuthTouch(p) ==
  /\ ureqs[p].kind = "auth" /\ ureqs[p].pc = "touch"
  /\ \E ok \in BOOLEAN :
       LET r == ureqs[p] IN
       IF ~ok
       THEN /\ users' = users
            /\ ureqs' = [ureqs EXCEPT ![p] =
                 URespond([r EXCEPT !.fault = TRUE], 500,
                          "Failed to process user data", FALSE)]
       ELSE /\ users' = UsersUpdateOne(users, r.user_id, Absent, clock)
            /\ ureqs' = [ureqs EXCEPT ![p] = URespond(r, 200, Absent, TRUE)]
  /\ UNCHANGED <<conversations, requests, clock, minted>>

\* ------------------------------------------------------------ /webhook/user
WebhookBodies ==
  [event : {"user.created", "user.updated"}, user_id : UserIds, email : Emails]
  \cup {[event |-> "user.updated", user_id |-> "U1", email |-> Null],
        [event |-> "user.deleted", user_id |-> "U1", email |-> "e1"],
        [event |-> Null, user_id |-> "U1", email |-> "e1"],
        [event |-> "user.created", user_id |-> Null, email |-> "e1"]}

\* handle_clerk_webhook, lines 134-181: the checks, find_one, now.
WebhookFind(p) ==
  /\ UCanStart(p)
  /\ \E body \in WebhookBodies :
       LET r == [NoUReq EXCEPT !.kind = "webhook"] IN
       ureqs' = [ureqs EXCEPT ![p] =
         IF ~TruthyId(body.event)
         THEN URespond(r, 400, "Missing event type", FALSE)
         ELSE IF ~TruthyId(body.user_id)
         THEN URespond(r, 400, "Missing user ID in webhook data", FALSE)
         ELSE IF body.event \notin {"user.created", "user.updated"}
         THEN URespond(r, 200, "Event acknowledged", FALSE)
         ELSE [r EXCEPT !.pc = "write", !.event = body.event,
                        !.user_id = body.user_id, !.email = body.email,
                        !.existing_user = UsersFindOne(users, body.user_id),
                        !.now = clock]]
  /\ UNCHANGED <<conversations, requests, clock, minted, users>>

\* handle_clerk_webhook, lines 183-227: update, insert or leave alone.
WebhookWrite(p) ==
  /\ ureqs[p].kind = "webhook" /\ ureqs[p].pc = "write"
  /\ LET r == ureqs[p]
         doc == UserDoc(r.user_id, Absent, r.email, r.now)
     IN IF r.existing_user /\ r.event = "user.updated"
        THEN /\ users' = UsersUpdateOne(users, r.user_id,
                             IF TruthyId(r.email) THEN r.email ELSE Absent, r.now)
             /\ ureqs' = [ureqs EXCEPT ![p] =
                  URespond(r, 200, "User processed via webhook", FALSE)]
        ELSE IF ~r.existing_user
        THEN IF UsersIndexAllows(users, doc)
             THEN /\ users' = Append(users, doc)
                  /\ ureqs' = [ureqs EXCEPT ![p] =
                       URespond(r, 200, "User processed via webhook", FALSE)]
             ELSE /\ users' = users
                  /\ ureqs' = [ureqs EXCEPT ![p] =
                       URespond(r, 500, "Webhook user processing failed", FALSE)]
        ELSE /\ users' = users
             /\ ureqs' = [ureqs EXCEPT ![p] =
                  URespond(r, 200, "User processed via webhook", FALSE)]
  /\ UNCHANGED <<conversations, requests, clock, minted>>

\* ----------------------------------------------------------- /api/save-user
SaveUserBodies ==
  [clerk_id : UserIds, email : Emails]
  \cup {[clerk_id |-> Null, email |-> "e1"],
        [clerk_id |-> "U1", email |-> Null]}

\* save_user, lines 304-318: the checks, find_one by email, now.
SaveUserFind(p) ==
  /\ UCanStart(p)
  /\ \E body \in SaveUserBodies :
       LET r == [NoUReq EXCEPT !.kind = "save_user"] IN
       ureqs' = [ureqs EXCEPT ![p] =
         IF ~TruthyId(body.email)
         THEN URespond(r, 400, "Email is required", FALSE)
         ELSE [r EXCEPT !.pc = "write",
                        !.user_id = body.clerk_id, !.email = body.email,
                        !.existing_user = UsersFindEmail(users, body.email),
                        !.now = clock]]
  /\ UNCHANGED <<conversations, requests, clock, minted, users>>

\* save_user, lines 319-344: update_one filtered on user_id = clerk_id, or
\* insert_one of a document that has clerk_id and no user_id.
SaveUserWrite(p) ==
  /\ ureqs[p].kind = "save_user" /\ ureqs[p].pc = "write"
  /\ LET r == ureqs[p]
         doc == UserDoc(Absent, r.user_id, r.email, r.now)
     IN IF r.existing_user
        THEN /\ users' = UsersUpdateOne(users, r.user_id, r.email, r.now)
             /\ ureqs' = [ureqs EXCEPT ![p] =
                  URespond(r, 200, "User updated successfully", FALSE)]
        ELSE IF UsersIndexAllows(users, doc)
        THEN /\ users' = Append(users, doc)
             /\ ureqs' = [ureqs EXCEPT ![p] =
                  URespond(r, 201, "User created successfully", FALSE)]
        ELSE /\ users' = users
             /\ ureqs' = [ureqs EXCEPT ![p] =
                  URespond(r, 500, "Failed to save user", FALSE)]
  /\ UNCHANGED <<conversations, requests, clock, minted>>

NextUsers ==
  \/ \E p \in Procs : AuthFind(p)
  \/ \E p \in Procs : AuthProvision(p)
  \/ \E p \in Procs : AuthTouch(p)
  \/ \E p \in Procs : WebhookFind(p)
  \/ \E p \in Procs : WebhookWrite(p)
  \/ \E p \in Procs : SaveUserFind(p)
  \/ \E p \in Procs : SaveUserWrite(p)
  \/ Tick

SpecUsers == Init /\ [][NextUsers]_vars

\* ==================================================================== claims
\* Request p takes the step.
Steps(p) == requests'[p] # requests[p]

\* Request p is answered in the step.
Answered(p) == requests[p].pc # "done" /\ requests'[p].pc = "done"

\* Number of documents with conversation id cid.
Count(cid) == Cardinality(Matching(conversations, cid))

\* The document find_one returns for cid.
Doc(cid) == conversations[First(Matching(conversations, cid))]

StoredIds == {conversations[i].conversation_id : i \in 1..Len(conversations)}

\* s is a prefix of t.
IsPrefix(s, t) == Len(s) <= Len(t) /\ \A i \in 1..Len(s) : s[i] = t[i]

\* ---------------------------------------------------------------------- C1
\* C1: every step of a chat request whose body has is_temp true or omitted
\* leaves the conversation store as it was, whatever inputs and conversation
\* id it carries and whether the model call succeeds or raises, and its
\* response carries no conversation id.
C1_TempChatLeavesStore ==
  [][\A p \in Procs :
       (Steps(p) /\ requests'[p].kind = "chat"
                 /\ requests'[p].is_temp \in {"true", "omitted"})
       => /\ conversations' = conversations
          /\ requests'[p].resp_conversation_id = Absent]_vars

\* A temporary chat was answered 200 while the store holds a conversation.
C1_Witness ==
  \E p \in Procs :
    /\ requests[p].kind = "chat" /\ requests[p].pc = "done"
    /\ requests[p].is_temp = "omitted" /\ requests[p].status = 200
    /\ conversations # <<>>

\* ---------------------------------------------------------------------- C3
\* C3: a chat request whose model call raised is answered at once with the
\* error "Model inference failed" (status 500, no reply, no conversation id)
\* and its step leaves the conversation store unchanged, for is_temp false as
\* for is_temp true or omitted.
C3_InferenceFailureLeavesStore ==
  [][\A p \in Procs :
       (Steps(p) /\ requests'[p].raised)
       => /\ conversations' = conversations
          /\ requests'[p].pc = "done"
          /\ requests'[p].status = 500
          /\ requests'[p].resp_error = "Model inference failed"
          /\ requests'[p].resp_conversation_id = Absent]_vars

\* A persisted chat turn failed at the model call while the store holds a
\* conversation.
C3_Witness ==
  \E p \in Procs :
    /\ requests[p].kind = "chat" /\ requests[p].pc = "done"
    /\ requests[p].raised /\ requests[p].is_temp = "false"
    /\ requests[p].status = 500
    /\ conversations # <<>>


\* ---------------------------------------------------------------------- C5
\* C5: a persisted chat turn (is_temp false) with no conversation id and a
\* text as user message, whose model call returned, first mints an id without
\* touching the store and then adds exactly one document: its id is non-empty
\* and differs from every stored id, its title is the first 50 characters of
\* the user message, its messages are the user message followed by the reply,
\* created_at and updated_at are clock readings taken during the request; the
\* response (200) carries that id and every other document is unchanged.
C5_NewConversation ==
  [][\A p \in Procs :
       (/\ Steps(p)
        /\ requests[p].kind = "chat"
        /\ Persist(requests[p])
        /\ requests[p].inputs # None
        /\ \/ requests[p].pc = "insert"
           \/ requests[p].pc = "persist" /\ ~TruthyId(requests[p].conversation_id))
       => IF requests[p].pc = "persist"
          THEN /\ conversations' = conversations
               /\ requests'[p].pc = "insert"
               /\ requests'[p].inputs = requests[p].inputs
               /\ requests'[p].response_text = requests[p].response_text
          ELSE LET n == Len(conversations)
                   d == conversations'[n + 1]
                   m == requests[p].inputs
               IN /\ Len(conversations') = n + 1
                  /\ \A i \in 1..n : conversations'[i] = conversations[i]
                  /\ TruthyId(d.conversation_id)
                  /\ d.conversation_id \notin StoredIds
                  /\ Len(d.title) = (IF Len(m) < 50 THEN Len(m) ELSE 50)
                  /\ \A i \in 1..Len(d.title) : d.title[i] = m[i]
                  /\ d.messages = <<[sender |-> "user", text |-> m],
                                    [sender |-> "bot", text |-> requests[p].response_text]>>
                  /\ d.created_at \in 0..clock
                  /\ d.updated_at = clock
                  /\ requests'[p].pc = "done"
                  /\ requests'[p].status = 200
                  /\ requests'[p].resp_conversation_id = d.conversation_id]_vars

\* A chat turn with a user message longer than 50 characters created a second
\* conversation and was answered with its minted id.
C5_Witness ==
  \E p \in Procs :
    /\ requests[p].kind = "chat" /\ requests[p].pc = "done"
    /\ requests[p].status = 200
    /\ requests[p].resp_conversation_id \in {uuid4(n) : n \in 1..minted}
    /\ Len(conversations) = 2
    /\ conversations[2].conversation_id = requests[p].resp_conversation_id
    /\ Len(conversations[2].title) = 50
    /\ Len(conversations[2].messages[1].text) > 50

\* ---------------------------------------------------------------------- C2
\* Persisted chat turns answered with conversation id cid.
TurnsOn(cid) ==
  {p \in Procs : /\ requests[p].kind = "chat" /\ requests[p].pc = "done"
                 /\ requests[p].status = 200
                 /\ requests[p].resp_conversation_id = cid}

\* save-convo requests naming cid, under way or answered.
SavesOn(cid) ==
  {p \in Procs : /\ requests[p].kind = "save_convo"
                 /\ \/ requests[p].conversation_id = cid
                    \/ requests[p].resp_conversation_id = cid}

\* C2: once N > 0 persisted chat turns on a conversation id have been
\* answered, there is exactly one document for that id; it holds at least the
\* 2*N messages of those turns, and exactly 2*N when no save-convo request
\* named the id (the store starts empty).
C2_TurnsAllStored ==
  \A cid \in KnownIds :
    LET N == Cardinality(TurnsOn(cid)) IN
    N > 0 => /\ Count(cid) = 1
             /\ Len(Doc(cid).messages) >= 2 * N
             /\ SavesOn(cid) = {} => Len(Doc(cid).messages) = 2 * N

\* ---------------------------------------------------------------------- C4
\* C4: when a persisted chat turn is answered with a conversation id, the
\* store then holds a document with that id whose last two messages are the
\* turn's user message and reply, also when no document had that id before.
C4_ReturnedIdIsStored ==
  [][\A p \in Procs :
       (/\ Answered(p)
        /\ requests'[p].kind = "chat"
        /\ requests'[p].resp_conversation_id # Absent)
       => LET cid == requests'[p].resp_conversation_id
              S == Matching(conversations', cid)
          IN /\ S # {}
             /\ LET ms == conversations'[First(S)].messages IN
                  /\ Len(ms) >= 2
                  /\ SubSeq(ms, Len(ms) - 1, Len(ms)) =
                       <<[sender |-> "user", text |-> requests[p].inputs],
                         [sender |-> "bot", text |-> requests[p].response_text]>>]_vars

\* ---------------------------------------------------------------------- C6
\* C6: there is at most one document per conversation id, and no save-convo
\* request with all its fields and no chat request creating a conversation is
\* answered with a server error: of two racing creations of one id, one
\* creates and the other continues.
C6_OneDocumentNoFailedCreate ==
  /\ \A cid \in StoredIds : Count(cid) = 1
  /\ \A p \in Procs :
       (requests[p].pc = "done" /\ requests[p].resp_error = "Internal Server Error")
       => requests[p].kind = "chat"

\* ---------------------------------------------------------------------- C7
\* C7: a stored conversation that has an owner changes its messages, title or
\* owner only in a step of a request that carries that owner's user id.
C7_OnlyOwnerModifies ==
  [][\A i \in 1..Len(conversations) :
       (/\ conversations[i].user_id # Absent
        /\ \/ conversations'[i].messages # conversations[i].messages
           \/ conversations'[i].title # conversations[i].title
           \/ conversations'[i].user_id # conversations[i].user_id)
       => \E p \in Procs : Steps(p) /\ requests[p].user_id = conversations[i].user_id]_vars

\* ---------------------------------------------------------------------- C8
\* C8: in every step the messages a stored conversation had are a prefix of
\* the messages it has afterwards.
C8_MessagesAppendOnly ==
  [][\A i \in 1..Len(conversations) :
       IsPrefix(conversations[i].messages, conversations'[i].messages)]_vars

\* ---------------------------------------------------------------------- C9
\* C9: the messages of every stored conversation are whole turns: the length
\* is even and not zero, every odd position (counting from 1) holds a user
\* message and the next position a bot message.
C9_WholeTurns ==
  \A i \in 1..Len(conversations) :
    LET ms == conversations[i].messages IN
      /\ Len(ms) > 0
      /\ Len(ms) % 2 = 0
      /\ \A k \in 1..Len(ms) :
           ms[k].sender = (IF k % 2 = 1 THEN "user" ELSE "bot")

\* --------------------------------------------------------------------- C10
\* C10: every stored conversation has updated_at >= created_at, and a
\* document is inserted with created_at equal to updated_at.
C10_TimestampsOrdered ==
  [][/\ \A i \in 1..Len(conversations') :
          conversations'[i].updated_at >= conversations'[i].created_at
     /\ Len(conversations') > Len(conversations)
          => conversations'[Len(conversations')].created_at =
             conversations'[Len(conversations')].updated_at]_vars

\* --------------------------------------------------------------------- C11
\* C11: a chat request that asks to persist (is_temp false) and carries no
\* owner identity is answered with a caller error (4xx) as soon as its model
\* call has returned, and none of its steps changes the store (so no chat
\* turn stores a conversation without an owner).
C11_PersistNeedsOwner ==
  [][\A p \in Procs :
       (/\ Steps(p)
        /\ requests'[p].kind = "chat"
        /\ Persist(requests'[p])
        /\ ~TruthyId(requests'[p].user_id)
        /\ ~requests'[p].raised)
       => /\ conversations' = conversations
          /\ requests'[p].pc = "done"
          /\ requests'[p].status \in 400..499]_vars

\* --------------------------------------------------------------------- C15
\* C15: no chat request with an empty or absent user message gets past the
\* reading of its body (it has then called the model), and no save-convo
\* request lacking conversation id, user id, title or messages gets to its
\* write.
C15_MissingFieldRejected ==
  \A p \in Procs :
    /\ (requests[p].kind = "chat" /\ requests[p].pc \in {"persist", "insert"})
         => TruthyText(requests[p].inputs)
    /\ (requests[p].kind = "save_convo" /\ requests[p].pc = "write")
         => /\ TruthyId(requests[p].conversation_id)
            /\ TruthyId(requests[p].user_id)
            /\ TruthyText(requests[p].title)
            /\ TruthyList(requests[p].messages)

\* --------------------------------------------------------------------- C16
\* C16: no step of a chat or save-convo request changes the title of a stored
\* conversation (the handlers include no rename operation).
C16_TitleKept ==
  [][\A i \in 1..Len(conversations) :
       conversations'[i].title = conversations[i].title]_vars

\* --------------------------------------------------------------------- C17
\* C17: in every step, updated_at of a stored conversation does not decrease.
C17_UpdatedAtMonotonic ==
  [][\A i \in 1..Len(conversations) :
       conversations'[i].updated_at >= conversations[i].updated_at]_vars

\* --------------------------------------------------------------------- C18
\* C18: the step of a persisted chat turn that names a conversation id keeps
\* the number of documents, changes at most messages and updated_at of the
\* documents with that id and leaves every other document as it was; and no
\* step of any request changes created_at of a stored conversation.
C18_ChatTurnFrame ==
  [][/\ \A i \in 1..Len(conversations) :
          /\ i <= Len(conversations')
          /\ conversations'[i].created_at = conversations[i].created_at
     /\ \A p \in Procs :
          (/\ Steps(p)
           /\ requests[p].kind = "chat" /\ requests[p].pc = "persist"
           /\ Persist(requests[p])
           /\ TruthyId(requests[p].conversation_id))
          => /\ Len(conversations') = Len(conversations)
             /\ \A i \in 1..Len(conversations) :
                  IF conversations[i].conversation_id = requests[p].conversation_id
                  THEN /\ conversations'[i].conversation_id = conversations[i].conversation_id
                       /\ conversations'[i].user_id = conversations[i].user_id
                       /\ conversations'[i].title = conversations[i].title
                       /\ conversations'[i].created_at = conversations[i].created_at
                  ELSE conversations'[i] = conversations[i]]_vars

\* A chat turn was appended to conversation c0 at clock 1 while the store
\* holds a second conversation.
C18_Witness ==
  /\ Len(conversations) = 2
  /\ conversations[1].conversation_id = "c0"
  /\ Len(conversations[1].messages) = 4
  /\ conversations[1].updated_at = 1
  /\ conversations[1].created_at = 0
  /\ \E p \in Procs :
       /\ requests[p].kind = "chat" /\ requests[p].pc = "done"
       /\ requests[p].resp_conversation_id = "c0"

\* ------------------------------------------------------------- user records
\* A step of request p on the user side, and the step that answers it.
USteps(p) == ureqs'[p] # ureqs[p]
UAnswered(p) == USteps(p) /\ ureqs'[p].pc = "done"

\* The records held for user u, whichever handler wrote them.
RecordsFor(coll, u) ==
  {i \in 1..Len(coll) : coll[i].user_id = u \/ coll[i].clerk_id = u}

\* C12: in every reachable state there is at most one user record per user
\* id, and once an authenticated request (valid token, no operation of the
\* user store or of Clerk failing) is answered there is exactly one record
\* for its user.
C12_OneRecordPerUser ==
  /\ \A u \in UserIds : Cardinality(RecordsFor(users, u)) <= 1
  /\ \A p \in Procs :
       (ureqs[p].kind = "auth" /\ ureqs[p].pc = "done"
          /\ ureqs[p].cred = "valid" /\ ~ureqs[p].fault)
       => Cardinality(RecordsFor(users, ureqs[p].user_id)) = 1

\* C13: a step of a request through require_auth whose credential is missing,
\* malformed, invalid or expired answers it with 401, does not call the
\* wrapped handler, and leaves the user store and the conversation store as
\* they were.
C13_BadCredentialRejected ==
  [][\A p \in Procs :
       (USteps(p) /\ ureqs'[p].kind = "auth" /\ ureqs'[p].cred # "valid")
       => /\ ureqs'[p].pc = "done"
          /\ ureqs'[p].status = 401
          /\ ~ureqs'[p].invoked
          /\ users' = users
          /\ conversations' = conversations]_vars

\* An expired token was answered 401 while the user store held a record.
C13_Witness ==
  \E p \in Procs :
    /\ ureqs[p].kind = "auth" /\ ureqs[p].pc = "done"
    /\ ureqs[p].cred = "expired"
    /\ ureqs[p].status = 401 /\ ~ureqs[p].invoked
    /\ users # <<>>

\* C14: an authenticated request whose user-record side effect failed (the
\* touch of last_active or the provisioning raised) still has its wrapped
\* handler invoked.
C14_SideEffectFailureSwallowed ==
  \A p \in Procs :
    (ureqs[p].kind = "auth" /\ ureqs[p].pc = "done"
       /\ ureqs[p].cred = "valid" /\ ureqs[p].fault)
    => ureqs[p].invoked

\* C19: a save-user request answered 'User updated successfully' has set the
\* last_active of a record that had its email to the request's time, one
\* answered 'User created successfully' has added exactly one record, and
\* the records save-user wrote never share an email.
C19_SaveUserReports ==
  /\ [][\A p \in Procs :
          (UAnswered(p) /\ ureqs'[p].kind = "save_user")
          => /\ ureqs'[p].message = "User updated successfully"
                => \E i \in 1..Len(users) :
                     /\ users[i].email = ureqs[p].email
                     /\ users'[i].last_active = ureqs[p].now
             /\ ureqs'[p].message = "User created successfully"
                => Len(users') = Len(users) + 1]_vars
  /\ [](\A i, j \in 1..Len(users) :
          (users[i].clerk_id # Absent /\ users[j].clerk_id # Absent
             /\ users[i].email = users[j].email) => i = j)
====
